---------------------------- MODULE Spec2Model ----------------------------
(***************************************************************************)
(* A model of the vmmap collector: the Collector of collector.zig (its     *)
(* lifecycle and its capture loop), the C boundary of main.zig that hands   *)
(* it to a host, and the memory the collector retains.                      *)
(*                                                                          *)
(* One caller context issues the boundary calls one at a time; every        *)
(* std.Thread.spawn adds an execution unit that runs collectionLoop.  The   *)
(* steps of the caller and of the units interleave freely.                  *)
(***************************************************************************)
EXTENDS Integers, Sequences, FiniteSets, TLC

\* ------------------------------------------------------------------ bounds
MaxThreads == 2
    \* execution units the host can run at once; a spawn beyond it fails
MaxCycles == 2
    \* capture cycles attempted in one run
MaxCreates == 1
    \* collectors created in one run
MaxClock == 1
    \* the last value of the millisecond clock
MaxRegions == 1
    \* regions the parser returns for one capture
MaxEffects == 2
    \* runs of the hook's effect in one mount of the component

\* --------------------------------------------------------------- constants
ns_per_ms == 1000000
    \* std.time.ns_per_ms
Limb == 65536
    \* 2^16: interval_ms is a u32, held here as two 16-bit limbs

\* interval_ms values handed to create: one whose nanosecond count fits a
\* u32 (the hook's 1000) and one whose count does not
Intervals == {1000, 5000}

Threads == 1..MaxThreads

\* captureSnapshot's locals when no capture is in flight
NoCapture ==
    [cycle |-> 0, invoked_ms |-> 0, timestamp_ms |-> 0, nreg |-> 0, ndet |-> 0]

VARIABLES
    collector,     \* the handle the host holds: "null", "live" or "freed"
    gen,           \* collectors created so far (names the allocations)
    interval_ms,   \* Collector.interval_ms
    running,       \* Collector.running (atomic flag)
    thread,        \* Collector.thread: 0 is null, else the unit spawned
    snapshots,     \* Collector.snapshots: the retained history
    callerPc,      \* where the caller context stands inside a boundary call
    result,        \* what the last boundary call returned
    loopPc,        \* each execution unit's position in collectionLoop
    cur,           \* each unit's captureSnapshot locals
    cycle,         \* capture cycles begun so far
    outcomes,      \* what captureSnapshot returned, cycle by cycle
    delivered,     \* the on_snapshot invocations, in the order made
    on_push,       \* the callback the host hands to create: one that
                   \* "records" each snapshot it is given, or "drops" it
    pushed,        \* the cycles the host's callback has recorded
    unreaped,      \* child processes spawned and never waited for
    clock,         \* std.time.milliTimestamp()
    allocated,     \* every allocation made
    freed,         \* the allocations given back to the allocator
    doubleFreed,   \* the allocations given back more than once
    touchedFreed,  \* a released Collector was read or written
    aborted,       \* the process was killed by a fault in the caller context
    \* parser.zig parse, on its own
    source,        \* the lines the text was written from, as places in LinePool
    output,        \* the text handed to parse
    line_no,       \* the lines parse has taken from its iterator
    regions,       \* parse's list of regions so far
    parse_ret,     \* "idle", "running", "returned" or "panicked"
    \* Timeline's fold of the snapshots into tracked regions, on its own
    timeline_pc,   \* "idle", "outer", "inner" or "returned"
    timeline_i,    \* i, the index of the snapshot the loop stands at
    timeline_j,    \* the regions of snapshots[i] the inner loop has taken
    map,           \* the Map's entries, in the order they were set
    tracked,       \* what the useMemo callback returned
    occurs,        \* every region taken so far, with its snapshot index
    \* the useCollector hook and the native module it calls
    effects,       \* runs of the hook's first effect so far
    mounted,       \* the last run's cleanup has not been called yet
    iife,          \* where each run's async function stands
    promise,       \* the promise each run's async function awaits
    methodQueue,   \* the native method calls made and not yet executed
    bridge_pc      \* where the native module stands between its methods

vars == <<collector, gen, interval_ms, running, thread, snapshots, callerPc,
          result, loopPc, cur, cycle, outcomes, delivered, on_push, pushed,
          unreaped, clock, allocated, freed, doubleFreed, touchedFreed,
          aborted, source, output, line_no, regions, parse_ret,
          timeline_pc, timeline_i, timeline_j, map, tracked, occurs,
          effects, mounted, iife, promise, methodQueue, bridge_pc>>

\* the variables of the collector and of its boundary
collectorVars ==
    <<collector, gen, interval_ms, running, thread, snapshots, callerPc,
      result, loopPc, cur, cycle, outcomes, delivered, on_push, pushed,
      unreaped, clock, allocated, freed, doubleFreed, touchedFreed, aborted>>

parserState == <<source, output, line_no, regions, parse_ret>>

timelineState ==
    <<timeline_pc, timeline_i, timeline_j, map, tracked, occurs>>

hookState == <<effects, mounted, iife, promise, methodQueue, bridge_pc>>

\* what a step of the collector leaves alone
elsewhere == <<parserState, timelineState, hookState>>

\* no parse of its own is under way
ParserIdle ==
    /\ source = <<>>
    /\ output = <<>>
    /\ line_no = 0
    /\ regions = <<>>
    /\ parse_ret = "idle"

\* no Timeline is rendered
TimelineIdle ==
    /\ timeline_pc = "idle"
    /\ timeline_i = 0
    /\ timeline_j = 0
    /\ map = <<>>
    /\ tracked = <<>>
    /\ occurs = {}

\* no component uses the hook
HookIdle ==
    /\ effects = 0
    /\ mounted = FALSE
    /\ iife = <<>>
    /\ promise = <<>>
    /\ methodQueue = <<>>
    /\ bridge_pc = "idle"

ElsewhereIdle == ParserIdle /\ TimelineIdle /\ HookIdle

collectorState == <<interval_ms, running, thread, snapshots>>
loopState ==
    <<loopPc, cur, cycle, outcomes, delivered, on_push, pushed, unreaped>>
heapState == <<allocated, freed, doubleFreed>>
faultState == <<touchedFreed, aborted>>

\* ------------------------------------------------------------------ memory
Alloc(kind, a, b) == [kind |-> kind, a |-> a, b |-> b]

\* the allocations parse makes for one snapshot: the region array
\* (toOwnedSlice), one region_type string per region (parseRegionLine's
\* dupe) and one detail string per region that has a detail (parseDetail)
RegionArray(s) == IF s.nreg > 0 THEN {Alloc("regions", s.cycle, 0)} ELSE {}
RegionStrings(s) ==
    {Alloc("region_type", s.cycle, j) : j \in 1..s.nreg}
        \cup {Alloc("detail", s.cycle, j) : j \in 1..s.ndet}
SnapshotAllocs(s) == RegionArray(s) \cup RegionStrings(s)

\* the backing array of the history list, allocated by the first append
ListAlloc(g) == Alloc("list", g, 0)
CollectorAlloc(g) == Alloc("Collector", g, 0)

\* Snapshot.deinit: allocator.free(self.regions), and nothing else
Snapshot_deinit(s) == RegionArray(s)

\* ---------------------------------------------------------- execution units
Units == {t \in Threads : loopPc[t] \notin {"none", "panicked"}}
crashed == aborted \/ \E t \in Threads : loopPc[t] = "panicked"

\* no collector has been created
CollectorNull ==
    /\ collector = "null"
    /\ gen = 0
    /\ interval_ms = 0
    /\ running = FALSE
    /\ thread = 0
    /\ snapshots = <<>>
    /\ callerPc = "ready"
    /\ result = [ok |-> TRUE, n |-> 0]
    /\ loopPc = [t \in Threads |-> "none"]
    /\ cur = [t \in Threads |-> NoCapture]
    /\ cycle = 0
    /\ outcomes = <<>>
    /\ delivered = <<>>
    /\ pushed = <<>>
    /\ unreaped = 0
    /\ clock = 0
    /\ allocated = {}
    /\ freed = {}
    /\ doubleFreed = {}
    /\ touchedFreed = FALSE
    /\ aborted = FALSE

Init ==
    /\ CollectorNull
    /\ on_push = "drops"
    /\ ElsewhereIdle

\* ------------------------------------------------------------- the boundary
\* the handles a host can pass: null, or the one it holds
Handles == {"null", collector}

\* what the last boundary call that returns a value returned: CResult.ok (or
\* a non-null pointer) and, for snapshot_count, the count.  stop and destroy
\* return void.
Ret(ok, n) == [ok |-> ok, n |-> n]

\* main.zig vmmap_collector_create: allocate a Collector and init it; an
\* allocation failure returns ok = false and produces no handle.  The host
\* holds one collector at a time.
vmmap_collector_create(i) ==
    /\ ~crashed
    /\ callerPc = "ready"
    /\ collector # "live"
    /\ \/ /\ result' = Ret(FALSE, 0)
          /\ UNCHANGED <<collector, gen, collectorState, allocated>>
       \/ /\ gen < MaxCreates
          /\ result' = Ret(TRUE, 0)
          /\ collector' = "live"
          /\ gen' = gen + 1
          /\ allocated' = allocated \cup {CollectorAlloc(gen + 1)}
          \* Collector.init
          /\ interval_ms' = i
          /\ snapshots' = <<>>
          /\ running' = FALSE
          /\ thread' = 0
    /\ UNCHANGED <<callerPc, loopState, clock, freed, doubleFreed,
                   faultState>>

\* a start() that has lost its guard
start_never_returns_early == FALSE

\* Collector.start, line 54: the guard that makes a second start a no-op
start_returns_early == running

\* std.Thread.spawn: the units the host can still run
FreeThreads == {t \in Threads : loopPc[t] = "none"}

\* Collector.start: load running; store true; spawn.  The store comes before
\* the spawn, and a failed spawn returns the error with the store in place.
Collector_start ==
    IF start_returns_early
    THEN /\ result' = Ret(TRUE, 0)
         /\ UNCHANGED <<running, thread, loopPc>>
    ELSE /\ running' = TRUE
         /\ \/ /\ FreeThreads # {}
               /\ LET t == CHOOSE u \in FreeThreads :
                               \A w \in FreeThreads : u <= w
                  IN  /\ thread' = t
                      /\ loopPc' = [loopPc EXCEPT ![t] = "check"]
               /\ result' = Ret(TRUE, 0)
            \/ /\ result' = Ret(FALSE, 0)
               /\ UNCHANGED <<thread, loopPc>>

\* main.zig vmmap_collector_start: a null handle is reported as a failure
vmmap_collector_start(h) ==
    /\ ~crashed
    /\ callerPc = "ready"
    /\ h # "freed"
    /\ IF h = "null"
       THEN /\ result' = Ret(FALSE, 0)
            /\ UNCHANGED <<running, thread, loopPc>>
       ELSE Collector_start
    /\ UNCHANGED <<collector, gen, interval_ms, snapshots, callerPc, cur,
                   cycle, outcomes, delivered, on_push, pushed, unreaped,
                   clock, heapState, faultState>>

\* a stop() that clears the flag and never joins
Collector_stop_no_join(wait, after) ==
    /\ running' = FALSE
    /\ callerPc' = after

\* Collector.stop up to the join: load running; store false; then join when
\* the thread handle is set.  `after` is where the caller goes once stop has
\* returned, `wait` where it blocks in t.join().
Collector_stop(wait, after) ==
    IF ~running
    THEN /\ callerPc' = after
         /\ UNCHANGED running
    ELSE /\ running' = FALSE
         /\ callerPc' = IF thread # 0 THEN wait ELSE after

\* main.zig vmmap_collector_stop
vmmap_collector_stop(h) ==
    /\ ~crashed
    /\ callerPc = "ready"
    /\ h # "freed"
    /\ IF h = "null"
       THEN UNCHANGED <<running, callerPc>>
       ELSE Collector_stop("stop_join", "ready")
    /\ UNCHANGED <<collector, gen, interval_ms, thread, snapshots, result,
                   loopState, clock, heapState, faultState>>

\* a stop() that signals and does not wait
JoinReturnsAtOnce(t) == TRUE

\* std.Thread.join: returns once the unit has left collectionLoop
JoinReturns(t) == loopPc[t] = "exited"

\* Collector.stop, lines 69-73: t.join(); self.thread = null
Join ==
    /\ ~crashed
    /\ callerPc \in {"stop_join", "deinit_join"}
    /\ JoinReturns(thread)
    /\ loopPc' = [loopPc EXCEPT
                    ![thread] = IF @ = "exited" THEN "none" ELSE @]
    /\ thread' = 0
    /\ callerPc' = IF callerPc = "stop_join" THEN "ready" ELSE "deinit_free"
    /\ UNCHANGED <<collector, gen, interval_ms, running, snapshots, result,
                   cur, cycle, outcomes, delivered, on_push, pushed, unreaped,
                   clock, heapState, faultState>>
    /\ UNCHANGED elsewhere

\* allocator.free of a set of allocations
Free(ids) ==
    /\ freed' = freed \cup ids
    /\ doubleFreed' = doubleFreed \cup (ids \cap freed)

\* main.zig vmmap_collector_destroy, up to the end of deinit's stop().  A null
\* handle is a no-op.  A handle that was destroyed before still points at the
\* released Collector: deinit reads it, which the allocator may answer with a
\* fault or with the stale contents.
vmmap_collector_destroy(h) ==
    /\ ~crashed
    /\ callerPc = "ready"
    /\ IF h = "null"
       THEN UNCHANGED <<running, callerPc, touchedFreed, aborted>>
       ELSE IF h = "live"
       THEN /\ Collector_stop("deinit_join", "deinit_free")
            /\ UNCHANGED <<touchedFreed, aborted>>
       ELSE /\ touchedFreed' = TRUE
            /\ \/ /\ aborted' = TRUE
                  /\ UNCHANGED <<running, callerPc>>
               \/ /\ Collector_stop("deinit_join", "deinit_free")
                  /\ UNCHANGED aborted
    /\ UNCHANGED <<collector, gen, interval_ms, thread, snapshots, result,
                   loopState, clock, heapState>>

\* the allocations Collector.deinit gives back after stop(): every snapshot's
\* Snapshot.deinit, then the history list's own array
Collector_deinit_frees ==
    UNION {Snapshot_deinit(snapshots[i]) : i \in 1..Len(snapshots)}
        \cup ({ListAlloc(gen)} \cap allocated)

\* Collector.deinit, lines 43-46
DeinitFree ==
    /\ ~crashed
    /\ callerPc = "deinit_free"
    /\ Free(Collector_deinit_frees)
    /\ callerPc' = "destroy_free"
    /\ UNCHANGED <<collector, gen, collectorState, result, loopState, clock,
                   allocated, faultState>>
    /\ UNCHANGED elsewhere

\* main.zig vmmap_collector_destroy, line 57: global_allocator.destroy(c)
DestroyFree ==
    /\ ~crashed
    /\ callerPc = "destroy_free"
    /\ Free({CollectorAlloc(gen)})
    /\ collector' = "freed"
    /\ callerPc' = "ready"
    /\ UNCHANGED <<gen, collectorState, result, loopState, clock, allocated,
                   faultState>>
    /\ UNCHANGED elsewhere

Appending == \E t \in Threads : loopPc[t] = "appending"

\* main.zig vmmap_collector_snapshot_count, line 91: what the read of
\* snapshots.items.len can see
snapshot_count_reads ==
    {Len(snapshots)} \cup (IF Appending THEN {Len(snapshots) + 1} ELSE {})

\* main.zig vmmap_collector_snapshot_count: reads snapshots.items.len with no
\* lock; a read that overlaps an append may see the length before or after
vmmap_collector_snapshot_count(h) ==
    /\ ~crashed
    /\ callerPc = "ready"
    /\ h # "freed"
    /\ IF h = "null"
       THEN result' = Ret(TRUE, 0)
       ELSE \E n \in snapshot_count_reads : result' = Ret(TRUE, n)
    /\ UNCHANGED <<collector, gen, collectorState, callerPc, loopState, clock,
                   heapState, faultState>>

\* collector.zig vmmap_collector_get_snapshots_json: walks snapshots.items
\* with no lock and returns the text, or null for a null handle
vmmap_collector_get_snapshots_json(h) ==
    /\ ~crashed
    /\ callerPc = "ready"
    /\ h # "freed"
    /\ result' = Ret(h # "null", 0)
    /\ UNCHANGED <<collector, gen, collectorState, callerPc, loopState, clock,
                   heapState, faultState>>

\* ----------------------------------------------------------- the capture loop
Goto(t, pc) == loopPc' = [loopPc EXCEPT ![t] = pc]

\* types.zig Snapshot: what captureSnapshot builds from its locals
Snapshot(c) ==
    [cycle |-> c.cycle, timestamp_ms |-> c.timestamp_ms, nreg |-> c.nreg,
     ndet |-> c.ndet]

\* collectionLoop, lines 83-85: captureSnapshot returned an error, which is
\* printed and dropped; the loop goes on to its sleep
Failed(t) ==
    /\ outcomes' = outcomes @@ (cur[t].cycle :> "failed")
    /\ cur' = [cur EXCEPT ![t] = NoCapture]
    /\ Goto(t, "sleep")

\* collectionLoop, line 81: while (self.running.load(.acquire))
LoopCheck(t) ==
    /\ ~crashed
    /\ loopPc[t] = "check"
    /\ IF running
       THEN /\ cycle < MaxCycles
            /\ cycle' = cycle + 1
            /\ cur' = [cur EXCEPT ![t] = [NoCapture EXCEPT !.cycle = cycle + 1]]
            /\ Goto(t, "spawn")
       ELSE /\ Goto(t, "exited")
            /\ UNCHANGED <<cycle, cur>>
    /\ UNCHANGED <<collector, gen, collectorState, callerPc, result, outcomes,
                   delivered, on_push, pushed, unreaped, clock, heapState,
                   faultState>>
    /\ UNCHANGED elsewhere

\* captureSnapshot, line 107: try child.spawn(), the moment the capture is
\* invoked
Spawn(t) ==
    /\ ~crashed
    /\ loopPc[t] = "spawn"
    /\ \/ /\ Goto(t, "read")
          /\ cur' = [cur EXCEPT ![t].invoked_ms = clock]
          /\ unreaped' = unreaped + 1
          /\ UNCHANGED outcomes
       \/ /\ Failed(t)
          /\ UNCHANGED unreaped
    /\ UNCHANGED <<collector, gen, collectorState, callerPc, result, cycle,
                   delivered, on_push, pushed, clock, heapState, faultState>>
    /\ UNCHANGED elsewhere

\* captureSnapshot, line 110: try stdout.readToEndAlloc(allocator, 10 MiB);
\* a read error or an output over the bound returns before child.wait()
ReadOutput(t) ==
    /\ ~crashed
    /\ loopPc[t] = "read"
    /\ \/ /\ Goto(t, "wait")
          /\ UNCHANGED <<outcomes, cur>>
       \/ Failed(t)
    /\ UNCHANGED <<collector, gen, collectorState, callerPc, result, cycle,
                   delivered, on_push, pushed, unreaped, clock, heapState,
                   faultState>>
    /\ UNCHANGED elsewhere

\* captureSnapshot, line 116: std.time.milliTimestamp(), read once wait() has
\* returned; the child ran for some time, so the clock may have moved on
Stamp(t) ==
    \E now \in clock..MaxClock :
        /\ clock' = now
        /\ cur' = [cur EXCEPT ![t].timestamp_ms = now]
        /\ Goto(t, "parse")
        /\ UNCHANGED outcomes

\* captureSnapshot, lines 113-116: try child.wait(); result.Exited != 0.
\* A child killed by a signal has no Exited field: reading it is a checked
\* fault in safe builds and an arbitrary exit code in the others.
Wait(t) ==
    /\ ~crashed
    /\ loopPc[t] = "wait"
    /\ unreaped' = unreaped - 1
    /\ \E term \in {"exit_0", "exit_nonzero", "signal"} :
         \/ /\ term = "exit_0"
            /\ Stamp(t)
         \/ /\ term = "exit_nonzero"
            /\ Failed(t)
            /\ UNCHANGED clock
         \/ /\ term = "signal"
            /\ \/ /\ Goto(t, "panicked")
                  /\ UNCHANGED <<outcomes, cur, clock>>
               \/ /\ Failed(t)
                  /\ UNCHANGED clock
               \/ Stamp(t)
    /\ UNCHANGED <<collector, gen, collectorState, callerPc, result, cycle,
                   delivered, on_push, pushed, heapState, faultState>>
    /\ UNCHANGED elsewhere

\* the region counts parse can return: up to MaxRegions regions, every other
\* one with a detail string
ParseResults == {[nreg |-> n, ndet |-> (n + 1) \div 2] : n \in 0..MaxRegions}

\* captureSnapshot, line 118: try parser.parse(allocator, output).  parse
\* fails only when out of memory; what it returns is owned by the snapshot.
Parse(t) ==
    /\ ~crashed
    /\ loopPc[t] = "parse"
    /\ \/ /\ Failed(t)
          /\ UNCHANGED allocated
       \/ \E r \in ParseResults :
            /\ cur' = [cur EXCEPT ![t].nreg = r.nreg, ![t].ndet = r.ndet]
            /\ allocated' = allocated \cup
                   SnapshotAllocs([cur[t] EXCEPT !.nreg = r.nreg,
                                                 !.ndet = r.ndet])
            /\ Goto(t, "append")
            /\ UNCHANGED outcomes
    /\ UNCHANGED <<collector, gen, collectorState, callerPc, result, cycle,
                   delivered, on_push, pushed, unreaped, clock, freed,
                   doubleFreed, faultState>>
    /\ UNCHANGED elsewhere

\* captureSnapshot, line 127: try self.snapshots.append(...), first half: the
\* list makes room (which may fail), then writes the item and its length
AppendBegin(t) ==
    /\ ~crashed
    /\ loopPc[t] = "append"
    /\ \/ /\ Failed(t)
          /\ UNCHANGED allocated
       \/ /\ allocated' = allocated \cup {ListAlloc(gen)}
          /\ Goto(t, "appending")
          /\ UNCHANGED <<outcomes, cur>>
    /\ UNCHANGED <<collector, gen, collectorState, callerPc, result, cycle,
                   delivered, on_push, pushed, unreaped, clock, freed,
                   doubleFreed, faultState>>
    /\ UNCHANGED elsewhere

\* a capture that keeps no history
AppendEnd_keeps_nothing(t) ==
    /\ ~crashed
    /\ loopPc[t] = "appending"
    /\ Goto(t, "deliver")
    /\ UNCHANGED <<collector, gen, collectorState, callerPc, result, cur,
                   cycle, outcomes, delivered, on_push, pushed, unreaped,
                   clock, heapState, faultState>>
    /\ UNCHANGED elsewhere

\* captureSnapshot, line 127, second half: the snapshot is in the history
AppendEnd(t) ==
    /\ ~crashed
    /\ loopPc[t] = "appending"
    /\ snapshots' = Append(snapshots, Snapshot(cur[t]))
    /\ Goto(t, "deliver")
    /\ UNCHANGED <<collector, gen, interval_ms, running, thread, callerPc,
                   result, cur, cycle, outcomes, delivered, on_push, pushed,
                   unreaped, clock, heapState, faultState>>
    /\ UNCHANGED elsewhere

\* a delivery that calls back once per retained snapshot
on_snapshot_again(d, s) ==
    Append(Append(d, [cycle |-> s.cycle, timestamp_ms |-> s.timestamp_ms]),
           [cycle |-> s.cycle, timestamp_ms |-> s.timestamp_ms])

\* captureSnapshot, lines 130-133: cb(&snapshot), one call for the snapshot
\* just appended
on_snapshot(d, s) ==
    Append(d, [cycle |-> s.cycle, timestamp_ms |-> s.timestamp_ms])

\* main.zig vmmap_collector_push_snapshot: CSnapshotResult.ok.  The CRegion
\* array, each region_type copy and the CSnapshot are allocated in turn, and
\* any of the allocations may fail.
push_snapshot_results == {TRUE, FALSE}

\* main.zig onSnapshot: convert, and hand the result to on_push only when the
\* conversion succeeded; a failed conversion is printed and dropped
onSnapshot(p, s, ok) ==
    IF ok /\ on_push = "records" THEN Append(p, s.cycle) ELSE p

\* captureSnapshot, lines 130-134: deliver, then return without an error.
\* The callback the boundary installs is onSnapshot, which runs to its end
\* inside the call.
Deliver(t) ==
    /\ ~crashed
    /\ loopPc[t] = "deliver"
    /\ delivered' = on_snapshot(delivered, Snapshot(cur[t]))
    /\ \E ok \in push_snapshot_results :
         pushed' = onSnapshot(pushed, Snapshot(cur[t]), ok)
    /\ outcomes' = outcomes @@ (cur[t].cycle :> "ok")
    /\ cur' = [cur EXCEPT ![t] = NoCapture]
    /\ Goto(t, "sleep")
    /\ UNCHANGED <<collector, gen, collectorState, callerPc, result, cycle,
                   on_push, unreaped, clock, heapState, faultState>>
    /\ UNCHANGED elsewhere

\* collectionLoop, line 86: interval_ms * ns_per_ms.  Both operands are u32,
\* so the product is a u32: its two limbs, and whether the exact product
\* needs more than 32 bits.
MulU32(a, b) ==
    LET p0 == (a % Limb) * (b % Limb)
        p1 == (a % Limb) * (b \div Limb) + (a \div Limb) * (b % Limb)
                  + (p0 \div Limb)
        p2 == (a \div Limb) * (b \div Limb) + (p1 \div Limb)
    IN  [hi |-> p1 % Limb, lo |-> p0 % Limb, overflow |-> p2 > 0]

SleepNs == MulU32(interval_ms, ns_per_ms)

\* collectionLoop, line 86: std.Thread.sleep(interval_ms * ns_per_ms).  A
\* product over the u32 range is a checked fault in safe builds and wraps in
\* the others.
Sleep(t) ==
    /\ ~crashed
    /\ loopPc[t] = "sleep"
    /\ IF ~SleepNs.overflow
       THEN Goto(t, "check")
       ELSE \/ Goto(t, "panicked")
            \/ Goto(t, "check")
    /\ UNCHANGED <<collector, gen, collectorState, callerPc, result, cur,
                   cycle, outcomes, delivered, on_push, pushed, unreaped,
                   clock, heapState, faultState>>
    /\ UNCHANGED elsewhere

collectionLoop(t) ==
    \/ LoopCheck(t)
    \/ Spawn(t)
    \/ ReadOutput(t)
    \/ Wait(t)
    \/ Parse(t)
    \/ AppendBegin(t)
    \/ AppendEnd(t)
    \/ Deliver(t)
    \/ Sleep(t)

\* a host that calls the boundary directly
Caller ==
    \/ \E i \in Intervals :
         vmmap_collector_create(i) /\ UNCHANGED elsewhere
    \/ \E h \in Handles :
         vmmap_collector_start(h) /\ UNCHANGED elsewhere
    \/ \E h \in Handles :
         vmmap_collector_stop(h) /\ UNCHANGED elsewhere
    \/ Join
    \/ \E h \in Handles :
         vmmap_collector_destroy(h) /\ UNCHANGED elsewhere
    \/ DeinitFree
    \/ DestroyFree
    \/ \E h \in Handles :
         vmmap_collector_snapshot_count(h) /\ UNCHANGED elsewhere
    \/ \E h \in Handles :
         vmmap_collector_get_snapshots_json(h) /\ UNCHANGED elsewhere

Next ==
    \/ Caller
    \/ \E t \in Threads : collectionLoop(t)

Spec == Init /\ [][Next]_vars

\* The same program with its threads scheduled: a unit that can take a step
\* of collectionLoop takes one in the end (the child it waits for terminates,
\* the callback it calls returns, its sleep ends), and a join whose unit has
\* left returns.
Scheduled ==
    /\ \A t \in Threads : WF_vars(collectionLoop(t))
    /\ WF_vars(Join)

FairSpec == Init /\ [][Next]_vars /\ Scheduled

\* the same program under a host whose callback records what it is given
PushInit ==
    /\ CollectorNull
    /\ on_push = "records"
    /\ ElsewhereIdle

PushSpec == PushInit /\ [][Next]_vars

\* ------------------------------------------------------------------- text
\* A text is a sequence of characters, each a string of length one.  The
\* slices below take zig's zero-based, end-exclusive indices.
Digits == <<"0", "1", "2", "3", "4", "5", "6", "7", "8", "9">>
HexLower == <<"a", "b", "c", "d", "e", "f">>
HexUpper == <<"A", "B", "C", "D", "E", "F">>

Range(f) == {f[i] : i \in DOMAIN f}
DecimalDigits == Range(Digits)
HexDigits == Range(Digits) \cup Range(HexLower) \cup Range(HexUpper)
Min(S) == CHOOSE x \in S : \A y \in S : x <= y
Max(S) == CHOOSE x \in S : \A y \in S : x >= y
IndexIn(f, c) == CHOOSE i \in DOMAIN f : f[i] = c

\* s[from..to] and s[from..]
Slice(s, from, to) == SubSeq(s, from + 1, to)
SliceFrom(s, from) == SubSeq(s, from + 1, Len(s))

\* std.mem.trim(u8, s, cs)
trim(s, cs) ==
    LET kept == {i \in 1..Len(s) : s[i] \notin cs}
    IN  IF kept = {} THEN <<>> ELSE SubSeq(s, Min(kept), Max(kept))

\* std.mem.indexOf(u8, s, needle): the places needle occurs at; the optional
\* the code unwraps is null when there is none and the least of them otherwise
Occurrences(s, needle) ==
    {i \in 0..(Len(s) - Len(needle)) : Slice(s, i, i + Len(needle)) = needle}

\* std.mem.indexOfAny(u8, s, cs)
OccurrencesOfAny(s, cs) == {i \in 0..(Len(s) - 1) : s[i + 1] \in cs}

\* std.mem.startsWith(u8, s, prefix)
startsWith(s, prefix) ==
    Len(s) >= Len(prefix) /\ SubSeq(s, 1, Len(prefix)) = prefix

\* std.mem.splitScalar(u8, s, c): the pieces between the delimiters, empty
\* ones included
RECURSIVE splitScalar(_, _)
splitScalar(s, c) ==
    LET at == OccurrencesOfAny(s, {c})
    IN  IF at = {} THEN <<s>>
        ELSE <<Slice(s, 0, Min(at))>>
                 \o splitScalar(SliceFrom(s, Min(at) + 1), c)

\* std.mem.tokenizeScalar(u8, s, c): the non-empty pieces
RECURSIVE tokenizeScalar(_, _)
tokenizeScalar(s, c) ==
    LET pieces == splitScalar(s, c)
    IN  SelectSeq(pieces, LAMBDA p : p # <<>>)

\* ---------------------------------------------------------------- numbers
\* A u64 is held as its digits, most significant first and with no leading
\* zero (zero is <<0>>): the addresses in base 16 and the sizes in base 10.
RECURSIVE Normal(_)
Normal(ds) ==
    IF Len(ds) > 1 /\ ds[1] = 0 THEN Normal(Tail(ds))
    ELSE IF ds = <<>> THEN <<0>> ELSE ds

RECURSIVE DigitsOf(_)
DigitsOf(n) == IF n < 10 THEN <<n>> ELSE Append(DigitsOf(n \div 10), n % 10)

\* the decimal number ds times m, for a small m
RECURSIVE TimesCarry(_, _, _)
TimesCarry(ds, m, carry) ==
    IF ds = <<>> THEN (IF carry = 0 THEN <<>> ELSE DigitsOf(carry))
    ELSE LET v == ds[Len(ds)] * m + carry
         IN  Append(TimesCarry(SubSeq(ds, 1, Len(ds) - 1), m, v \div 10),
                    v % 10)
Times(ds, m) == Normal(TimesCarry(ds, m, 0))

\* the value of a number of at most nine decimal digits
RECURSIVE Num(_)
Num(ds) ==
    IF ds = <<>> THEN 0 ELSE 10 * Num(SubSeq(ds, 1, Len(ds) - 1)) + ds[Len(ds)]

\* ------------------------------------------------------------------ parser
\* a failed step of parseRegionLine (any member of ParseError) and a step
\* whose behaviour is undefined
Err == [kind |-> "error"]
Fault == [kind |-> "fault"]

\* parser.zig isHexDigit
isHexDigit(c) == c \in HexDigits

\* std.fmt.charToDigit: the value of a digit, 99 for a character that is none
charToDigit(c) ==
    IF c \in DecimalDigits THEN IndexIn(Digits, c) - 1
    ELSE IF c \in Range(HexLower) THEN IndexIn(HexLower, c) + 9
    ELSE IF c \in Range(HexUpper) THEN IndexIn(HexUpper, c) + 9
    ELSE 99

\* std.fmt.parseInt(u64, buf, base) on an unsigned numeral: every character
\* must be a digit of the base and there must be one; sixteen hex digits
\* fill a u64.  (The decimal numerals of the texts below are far inside the
\* u64 range.)
parseInt(buf, base) ==
    LET ds == [i \in 1..Len(buf) |-> charToDigit(buf[i])]
    IN  IF buf = <<>> \/ \E i \in 1..Len(buf) : ds[i] >= base THEN Err
        ELSE IF base = 16 /\ Len(Normal(ds)) > 16 THEN Err
        ELSE [kind |-> "ok", value |-> Normal(ds)]

\* the end of the hex run that starts at i: the loop of lines 189 and 215
HexRunEnd(line, i) ==
    Min({j \in i..(Len(line) - 1) : ~isHexDigit(line[j + 1])} \cup {Len(line)})

\* lines 187-192 and 213-221: a hex digit at i whose run is followed by a
\* dash and one more hex digit
AnchorAt(line, i) ==
    /\ isHexDigit(line[i + 1])
    /\ LET j == HexRunEnd(line, i)
       IN  /\ j < Len(line)
           /\ line[j + 1] = "-"
           /\ j + 1 < Len(line)
           /\ isHexDigit(line[j + 2])

\* parser.zig findAddressStart: the first i the scan accepts; the empty set
\* stands for null
findAddressStart(line) ==
    LET at == {i \in 0..(Len(line) - 1) : AnchorAt(line, i)}
    IN  {i \in at : i = Min(at)}

\* parser.zig containsHexRange
containsHexRange(line) == \E i \in 0..(Len(line) - 1) : AnchorAt(line, i)

\* parser.zig isRegionLine
isRegionLine(line) ==
    LET trimmed == trim(line, {" "})
    IN  /\ Len(trimmed) # 0
        /\ ~startsWith(trimmed, <<"=", "=">>)
        /\ ~startsWith(trimmed, <<"R", "E", "G", "I", "O", "N", " ", "T", "Y",
                                  "P", "E">>)
        /\ ~startsWith(trimmed, <<"-", "-", "-">>)
        /\ Occurrences(line, <<"-">>) # {}
        /\ containsHexRange(line)

\* parser.zig parsePerm
parsePerm(s) ==
    [read |-> s[1] = "r", write |-> s[2] = "w", execute |-> s[3] = "x"]

Denied == [read |-> FALSE, write |-> FALSE, execute |-> FALSE]

\* parser.zig parsePermissions: the first i with i + 6 < len and a slash at
\* i + 3 gives both triples, whatever the six characters around it are
parsePermissions(rest) ==
    LET trimmed == trim(rest, {" "})
        at == {i \in 0..(Len(trimmed) - 7) : trimmed[i + 4] = "/"}
    IN  IF at = {} THEN [current |-> Denied, max |-> Denied]
        ELSE [current |-> parsePerm(Slice(trimmed, Min(at), Min(at) + 3)),
              max |-> parsePerm(Slice(trimmed, Min(at) + 4, Min(at) + 7))]

\* parser.zig parseDetail sm_markers, and SharingMode in the same order
sm_markers ==
    <<<<"S", "M", "=", "C", "O", "W">>,
      <<"S", "M", "=", "P", "R", "V">>,
      <<"S", "M", "=", "S", "H", "M">>,
      <<"S", "M", "=", "N", "U", "L">>,
      <<"S", "M", "=", "A", "L", "I">>,
      <<"S", "M", "=", "S", "/", "A">>>>
SharingMode == <<"COW", "PRV", "SHM", "NUL", "ALI", "S_A">>

\* parser.zig parseSharingMode: the markers are looked for one after the
\* other, in the order of the list, each anywhere in rest
parseSharingMode(rest) ==
    LET found == {k \in 1..Len(sm_markers) :
                    Occurrences(rest, sm_markers[k]) # {}}
    IN  IF found = {} THEN "PRV" ELSE SharingMode[Min(found)]

\* what follows the first occurrence of marker k in rest, trimmed
AfterMarker(rest, k) ==
    trim(SliceFrom(rest, Min(Occurrences(rest, sm_markers[k]))
                             + Len(sm_markers[k])),
         {" ", "\t"})

\* parser.zig parseDetail: the text after the first marker of the list that
\* occurs in rest and has text after it; the empty text stands for null
parseDetail(rest) ==
    LET usable == {k \in 1..Len(sm_markers) :
                     /\ Occurrences(rest, sm_markers[k]) # {}
                     /\ AfterMarker(rest, k) # <<>>}
    IN  IF usable = {} THEN <<>> ELSE AfterMarker(rest, Min(usable))

\* every unit taken for K
UnitPower_K_for_all(c) == IF c \in {"K", "M", "G"} THEN 1 ELSE 0

\* parser.zig parseSize, lines 160-169: the multiplier the last character
\* selects, as the number of factors of 1024
UnitPower(c) ==
    IF c = "K" THEN 1 ELSE IF c = "M" THEN 2 ELSE IF c = "G" THEN 3 ELSE 0

RECURSIVE Scale(_, _)
Scale(ds, k) == IF k = 0 THEN ds ELSE Scale(Times(ds, 1024), k - 1)

\* std.fmt.parseFloat(f64, s) on a decimal numeral: digits, a point, digits,
\* with a digit on one side at least.  The result is the numeral's digits and
\* the number of them after the point.
parseFloat(s) ==
    LET p == Min(Occurrences(s, <<".">>))
        ds == Slice(s, 0, p) \o SliceFrom(s, p + 1)
    IN  IF ds = <<>> \/ \E i \in 1..Len(ds) : ds[i] \notin DecimalDigits
        THEN Err
        ELSE [kind |-> "ok",
              value |-> [i \in 1..Len(ds) |-> charToDigit(ds[i])],
              decimals |-> Len(s) - p - 1]

\* a conversion that keeps the digits after the point
intFromFloat_keeps_fraction(ds, decimals) == Normal(ds)

\* @intFromFloat: the digits after the point are dropped
intFromFloat(ds, decimals) ==
    IF Len(ds) <= decimals THEN <<0>>
    ELSE Normal(SubSeq(ds, 1, Len(ds) - decimals))

\* parser.zig parseSize.  The f64 product is held exactly: for a numeral of a
\* few digits the double nearest to it, times a power of two, truncates to
\* the same integer as the numeral itself does.
parseSize(size) ==
    IF Len(size) = 0 THEN [kind |-> "ok", value |-> <<0>>]
    ELSE LET k == UnitPower(size[Len(size)])
             num_str == IF k > 0 THEN Slice(size, 0, Len(size) - 1) ELSE size
         IN  IF Occurrences(num_str, <<".">>) # {}
             THEN LET whole == parseFloat(num_str)
                  IN  IF whole.kind = "error" THEN Err
                      ELSE [kind |-> "ok",
                            value |-> intFromFloat(
                                Scale(Normal(whole.value), k), whole.decimals)]
             ELSE LET value == parseInt(num_str, 10)
                  IN  IF value.kind = "error" THEN Err
                      ELSE [kind |-> "ok", value |-> Scale(value.value, k)]

\* parser.zig parseSizes: the first four tokens of the bracket, each parsed
parseSizes(bracket_content) ==
    LET parts == tokenizeScalar(bracket_content, " ")
    IN  IF Len(parts) < 4 THEN Err
        ELSE LET sz == [i \in 1..4 |-> parseSize(parts[i])]
             IN  IF \E i \in 1..4 : sz[i].kind = "error" THEN Err
                 ELSE [kind |-> "ok", virtual |-> sz[1].value,
                       resident |-> sz[2].value, dirty |-> sz[3].value,
                       swap |-> sz[4].value]

\* parser.zig parseRegionLine, lines 46-67: what follows the bracket
RegionOf(region_type, start_addr, end_addr, sizes, rest) ==
    [kind |-> "region",
     region_type |-> region_type,
     start_addr |-> start_addr,
     end_addr |-> end_addr,
     virtual_size |-> sizes.virtual,
     resident_size |-> sizes.resident,
     dirty_size |-> sizes.dirty,
     swap_size |-> sizes.swap,
     current_perm |-> parsePermissions(rest).current,
     max_perm |-> parsePermissions(rest).max,
     sharing_mode |-> parseSharingMode(rest),
     detail |-> parseDetail(rest)]

\* parser.zig parseRegionLine, lines 36-44: the end address and the bracket.
\* A closing bracket that comes before the opening one makes the slice of
\* line 43 start after its end, which is undefined.
AfterDash(region_type, start_addr, rest) ==
    LET end_pos == OccurrencesOfAny(rest, {" ", "["})
        open == Occurrences(rest, <<"[">>)
        close == Occurrences(rest, <<"]">>)
    IN  IF end_pos = {} THEN Err
        ELSE LET end_addr == parseInt(Slice(rest, 0, Min(end_pos)), 16)
             IN  IF end_addr.kind = "error" \/ open = {} \/ close = {}
                 THEN Err
                 ELSE IF Min(open) + 1 > Min(close) THEN Fault
                 ELSE LET sizes == parseSizes(
                                     Slice(rest, Min(open) + 1, Min(close)))
                      IN  IF sizes.kind = "error" THEN Err
                          ELSE RegionOf(region_type, start_addr,
                                        end_addr.value, sizes,
                                        SliceFrom(rest, Min(close) + 1))

\* parser.zig parseRegionLine, lines 25-34: the anchor, the category and the
\* start address
parseRegionLine(line) ==
    IF findAddressStart(line) = {} THEN Err
    ELSE LET addr_start == Min(findAddressStart(line))
             region_type == trim(Slice(line, 0, addr_start), {" "})
             rest == SliceFrom(line, addr_start)
             dash_pos == Occurrences(rest, <<"-">>)
         IN  IF dash_pos = {} THEN Err
             ELSE LET start_addr == parseInt(Slice(rest, 0, Min(dash_pos)), 16)
                  IN  IF start_addr.kind = "error" THEN Err
                      ELSE AfterDash(region_type, start_addr.value,
                                     SliceFrom(rest, Min(dash_pos) + 1))

\* ------------------------------------------------------- the texts parsed
MaxLines == 2
    \* lines in one text

Spaces(n) == [i \in 1..n |-> " "]

\* The lines a text is written from.  A region line is kept as its fields,
\* each size as the digits of its numeral, the number of them after the
\* point and its unit; any other line is kept as its text.
LinePool ==
    <<\* 1: the line of the scenario
      [kind |-> "region", pad |-> 0, gap |-> Spaces(2),
       category |-> <<"_", "_", "T", "E", "X", "T">>,
       start |-> <<1, 0, 0, 4, 8, 4, 0, 0, 0>>,
       end |-> <<1, 0, 0, 15, 3, 12, 0, 0, 0>>,
       sizes |-> <<[digits |-> 107, decimals |-> 1, unit |-> "M"],
                   [digits |-> 7904, decimals |-> 0, unit |-> "K"],
                   [digits |-> 0, decimals |-> 0, unit |-> "K"],
                   [digits |-> 0, decimals |-> 0, unit |-> "K"]>>,
       perms |-> <<"r", "-", "x", "/", "r", "-", "x">>, marker |-> 1,
       detail |-> <<"/", "b", "i", "n", "/", "a", "p", "p">>],
      \* 2: a category of several words, some of hex letters
      [kind |-> "region", pad |-> 0, gap |-> Spaces(2),
       category |-> <<"M", "A", "L", "L", "O", "C", " ", "g", "u", "a", "r",
                      "d", " ", "p", "a", "g", "e">>,
       start |-> <<1, 0, 0, 0, 0, 0>>,
       end |-> <<1, 0, 1, 0, 0, 0>>,
       sizes |-> <<[digits |-> 512, decimals |-> 0, unit |-> "K"],
                   [digits |-> 824, decimals |-> 0, unit |-> ""],
                   [digits |-> 0, decimals |-> 0, unit |-> "K"],
                   [digits |-> 0, decimals |-> 0, unit |-> "K"]>>,
       perms |-> <<"r", "w", "-", "/", "r", "w", "x">>, marker |-> 2,
       detail |-> <<>>],
      \* 3: a category with a parenthetical qualifier, indented
      [kind |-> "region", pad |-> 1, gap |-> Spaces(2),
       category |-> <<"M", "A", "L", "L", "O", "C", "_", "L", "A", "R", "G",
                      "E", " ", "(", "r", "e", "s", "e", "r", "v", "e", "d",
                      ")">>,
       start |-> <<7, 15, 0, 0, 0, 0, 0, 0, 0>>,
       end |-> <<7, 15, 8, 0, 0, 0, 0, 0, 0>>,
       sizes |-> <<[digits |-> 1, decimals |-> 0, unit |-> "G"],
                   [digits |-> 15, decimals |-> 1, unit |-> "K"],
                   [digits |-> 7, decimals |-> 1, unit |-> "K"],
                   [digits |-> 0, decimals |-> 0, unit |-> "K"]>>,
       perms |-> <<"-", "-", "-", "/", "r", "w", "x">>, marker |-> 4,
       detail |-> <<"(", "u", "n", "a", "l", "l", "o", "c", "a", "t", "e",
                    "d", ")">>],
      \* 4: no permissions, and a marker that holds a slash
      [kind |-> "region", pad |-> 0, gap |-> Spaces(2),
       category |-> <<"S", "t", "a", "c", "k">>,
       start |-> <<1, 6, 15, 0, 0, 0, 0, 0, 0>>,
       end |-> <<1, 6, 15, 8, 0, 0, 0, 0, 0>>,
       sizes |-> <<[digits |-> 8, decimals |-> 0, unit |-> "M"],
                   [digits |-> 48, decimals |-> 0, unit |-> "K"],
                   [digits |-> 48, decimals |-> 0, unit |-> "K"],
                   [digits |-> 0, decimals |-> 0, unit |-> "K"]>>,
       perms |-> <<>>, marker |-> 6,
       detail |-> <<>>],
      \* 5: no permissions, and a path as detail
      [kind |-> "region", pad |-> 0, gap |-> Spaces(2),
       category |-> <<"_", "_", "D", "A", "T", "A">>,
       start |-> <<10, 0, 0, 0>>,
       end |-> <<11, 0, 0, 0>>,
       sizes |-> <<[digits |-> 16, decimals |-> 0, unit |-> "K"],
                   [digits |-> 16, decimals |-> 0, unit |-> "K"],
                   [digits |-> 0, decimals |-> 0, unit |-> "K"],
                   [digits |-> 0, decimals |-> 0, unit |-> "K"]>>,
       perms |-> <<>>, marker |-> 1,
       detail |-> <<"/", "n", "i", "x", "/", "a", "p", "p">>],
      \* 6: no sharing marker
      [kind |-> "region", pad |-> 0, gap |-> Spaces(2),
       category |-> <<"A", "B", "C", " ", "d", "e", "a", "d", " ", "s", "t",
                      "o", "r", "e">>,
       start |-> <<1, 0, 0, 0>>,
       end |-> <<2, 0, 0, 0>>,
       sizes |-> <<[digits |-> 4, decimals |-> 0, unit |-> "K"],
                   [digits |-> 0, decimals |-> 0, unit |-> "K"],
                   [digits |-> 0, decimals |-> 0, unit |-> "K"],
                   [digits |-> 0, decimals |-> 0, unit |-> "K"]>>,
       perms |-> <<"r", "w", "-", "/", "r", "w", "x">>, marker |-> 0,
       detail |-> <<>>],
      \* 7: a detail that holds a marker of its own
      [kind |-> "region", pad |-> 0, gap |-> Spaces(2),
       category |-> <<"s", "h", "a", "r", "e", "d", " ", "m", "e", "m", "o",
                      "r", "y">>,
       start |-> <<3, 0, 0, 0>>,
       end |-> <<4, 0, 0, 0>>,
       sizes |-> <<[digits |-> 4, decimals |-> 0, unit |-> "K"],
                   [digits |-> 4, decimals |-> 0, unit |-> "K"],
                   [digits |-> 0, decimals |-> 0, unit |-> "K"],
                   [digits |-> 0, decimals |-> 0, unit |-> "K"]>>,
       perms |-> <<"r", "-", "-", "/", "r", "-", "-">>, marker |-> 3,
       detail |-> <<"z", "o", "n", "e", " ", "S", "M", "=", "C", "O", "W">>],
      \* 8: the column header
      [kind |-> "noise",
       text |-> <<"R", "E", "G", "I", "O", "N", " ", "T", "Y", "P", "E", " ",
                  " ", "S", "T", "A", "R", "T", " ", "-", " ", "E", "N", "D",
                  " ", " ", "[", " ", "V", "S", "I", "Z", "E", " ", "R", "S",
                  "D", "N", "T", " ", "D", "I", "R", "T", "Y", " ", "S", "W",
                  "A", "P", "]", " ", "P", "R", "T", "/", "M", "A", "X", " ",
                  "S", "H", "R", "M", "O", "D">>],
      \* 9: a section separator
      [kind |-> "noise",
       text |-> <<"=", "=", "=", "=", " ", "W", "r", "i", "t", "a", "b", "l",
                  "e", " ", "r", "e", "g", "i", "o", "n", "s", " ", "f", "o",
                  "r", " ", "p", "r", "o", "c", "e", "s", "s", " ", "2", "5",
                  "0", "3", "8">>],
      \* 10: a divider
      [kind |-> "noise",
       text |-> <<"-", "-", "-", "-", "-", "-", "-", "-", "-", "-", "-">>],
      \* 11: a line of the preamble whose date looks like an address range
      [kind |-> "noise",
       text |-> <<"D", "a", "t", "e", "/", "T", "i", "m", "e", ":", " ", "2",
                  "0", "2", "6", "-", "0", "2", "-", "1", "3", " ", "1", "0",
                  ":", "0", "0">>],
      \* 12: a region line with three sizes
      [kind |-> "noise",
       text |-> <<"M", "A", "L", "L", "O", "C", "_", "T", "I", "N", "Y", " ",
                  " ", "5", "0", "0", "0", "-", "6", "0", "0", "0", " ", "[",
                  " ", "4", "K", " ", "4", "K", " ", "0", "K", "]", " ", "r",
                  "w", "-", "/", "r", "w", "x", " ", "S", "M", "=", "P", "R",
                  "V">>],
      \* 13: a region line with a bad end address
      [kind |-> "noise",
       text |-> <<"M", "A", "L", "L", "O", "C", "_", "T", "I", "N", "Y", " ",
                  " ", "5", "0", "0", "0", "-", "6", "0", "g", "0", " ", "[",
                  " ", "4", "K", " ", "4", "K", " ", "0", "K", " ", "0", "K",
                  "]", " ", "r", "w", "-", "/", "r", "w", "x", " ", "S", "M",
                  "=", "P", "R", "V">>],
      \* 14: a region line whose brackets are the wrong way round
      [kind |-> "noise",
       text |-> <<"M", "A", "L", "L", "O", "C", "_", "T", "I", "N", "Y", " ",
                  " ", "5", "0", "0", "0", "-", "6", "0", "0", "0", " ", "]",
                  " ", "4", "K", " ", "4", "K", " ", "0", "K", " ", "0", "K",
                  " ", "[", " ", "r", "w", "-", "/", "r", "w", "x", " ", "S",
                  "M", "=", "P", "R", "V">>],
      \* 15: a category followed by a tab
      [kind |-> "region", pad |-> 0, gap |-> <<"\t">>,
       category |-> <<"M", "A", "L", "L", "O", "C", "_", "S", "M", "A", "L",
                      "L">>,
       start |-> <<8, 0, 0, 0>>,
       end |-> <<9, 0, 0, 0>>,
       sizes |-> <<[digits |-> 4, decimals |-> 0, unit |-> "K"],
                   [digits |-> 4, decimals |-> 0, unit |-> "K"],
                   [digits |-> 0, decimals |-> 0, unit |-> "K"],
                   [digits |-> 0, decimals |-> 0, unit |-> "K"]>>,
       perms |-> <<"r", "w", "-", "/", "r", "w", "x">>, marker |-> 2,
       detail |-> <<>>],
      \* 16: a bracket of five sizes
      [kind |-> "region", pad |-> 0, gap |-> Spaces(2),
       category |-> <<"V", "M", "_", "A", "L", "L", "O", "C", "A", "T", "E">>,
       start |-> <<12, 0, 0, 0>>,
       end |-> <<13, 0, 0, 0>>,
       sizes |-> <<[digits |-> 4, decimals |-> 0, unit |-> "K"],
                   [digits |-> 4, decimals |-> 0, unit |-> "K"],
                   [digits |-> 0, decimals |-> 0, unit |-> "K"],
                   [digits |-> 0, decimals |-> 0, unit |-> "K"]>>,
       extra |-> <<[digits |-> 4, decimals |-> 0, unit |-> "K"]>>,
       perms |-> <<"r", "w", "-", "/", "r", "w", "x">>, marker |-> 2,
       detail |-> <<>>],
      \* 17: an address range that ends before it starts
      [kind |-> "region", pad |-> 0, gap |-> Spaces(2),
       category |-> <<"_", "_", "L", "I", "N", "K", "E", "D", "I", "T">>,
       start |-> <<15, 0, 0, 0>>,
       end |-> <<14, 0, 0, 0>>,
       sizes |-> <<[digits |-> 16, decimals |-> 0, unit |-> "K"],
                   [digits |-> 16, decimals |-> 0, unit |-> "K"],
                   [digits |-> 0, decimals |-> 0, unit |-> "K"],
                   [digits |-> 0, decimals |-> 0, unit |-> "K"]>>,
       perms |-> <<"r", "-", "-", "/", "r", "-", "-">>, marker |-> 1,
       detail |-> <<>>]>>

ScenarioLine == 1
    \* the place of the scenario's line in LinePool

Pow10(d) == IF d = 0 THEN 1 ELSE IF d = 1 THEN 10 ELSE 100

\* a number written in base 10, in at least `width` digits
RECURSIVE FormatDecimal(_, _)
FormatDecimal(n, width) ==
    IF n < 10 /\ width <= 1 THEN <<Digits[n + 1]>>
    ELSE Append(FormatDecimal(n \div 10, width - 1), Digits[(n % 10) + 1])

\* an address written in base 16, as vmmap writes it
FormatHex(ds) ==
    [i \in 1..Len(ds) |->
        IF ds[i] < 10 THEN Digits[ds[i] + 1] ELSE HexLower[ds[i] - 9]]

\* a size written as vmmap writes it: "10.7M", "7904K", "824"
FormatSize(m) ==
    (IF m.decimals = 0 THEN FormatDecimal(m.digits, 1)
     ELSE FormatDecimal(m.digits \div Pow10(m.decimals), 1) \o <<".">>
              \o FormatDecimal(m.digits % Pow10(m.decimals), m.decimals))
        \o (IF m.unit = "" THEN <<>> ELSE <<m.unit>>)

\* what vmmap writes after the closing bracket
TailText(d) ==
    (IF d.perms = <<>> THEN <<>> ELSE <<" ">> \o d.perms)
        \o (IF d.marker = 0 THEN <<>> ELSE <<" ">> \o sm_markers[d.marker])
        \o (IF d.detail = <<>> THEN <<>> ELSE Spaces(3) \o d.detail)

\* a size in its column of six characters, flush right
Column(text) == Spaces(Max({0, 6 - Len(text)})) \o text

\* the columns a line carries after its four sizes, inside the bracket
RECURSIVE Columns(_)
Columns(ms) ==
    IF ms = <<>> THEN <<>>
    ELSE Spaces(1) \o Column(FormatSize(ms[1])) \o Columns(Tail(ms))
ExtraColumns(d) == IF "extra" \in DOMAIN d THEN Columns(d.extra) ELSE <<>>

\* one line of vmmap's output, laid out as the scenario's line is
WriteLine(d) ==
    IF d.kind = "noise" THEN d.text
    ELSE Spaces(d.pad) \o d.category \o d.gap
             \o FormatHex(d.start) \o <<"-">> \o FormatHex(d.end)
             \o Spaces(4) \o <<"[">>
             \o Column(FormatSize(d.sizes[1])) \o Spaces(1)
             \o Column(FormatSize(d.sizes[2])) \o Spaces(1)
             \o Column(FormatSize(d.sizes[3])) \o Spaces(1)
             \o Column(FormatSize(d.sizes[4])) \o ExtraColumns(d) \o <<"]">>
             \o TailText(d)

\* vmmap's output: every line ends with a newline
RECURSIVE WriteText(_)
WriteText(src) ==
    IF src = <<>> THEN <<>>
    ELSE WriteLine(LinePool[src[1]]) \o <<"\n">> \o WriteText(Tail(src))

Texts == UNION {[1..n -> 1..Len(LinePool)] : n \in 1..MaxLines}

\* ------------------------------------------------------ parse, step by step
ParseInit ==
    /\ CollectorNull
    /\ on_push = "drops"
    /\ TimelineIdle
    /\ HookIdle
    /\ source \in Texts
    /\ output = WriteText(source)
    /\ line_no = 0
    /\ regions = <<>>
    /\ parse_ret = "running"

\* parse, line 12: the lines of the text
Lines == splitScalar(output, "\n")

\* parse, lines 13-17: one turn of the loop.  A line that is no region line,
\* or that parseRegionLine fails on, is passed over.  The allocator is taken
\* to have memory.  A line whose parse is undefined stops a safe build with a
\* panic; an unchecked build reads past the line and fails on what it finds,
\* or is killed.
parse_line ==
    /\ parse_ret = "running"
    /\ line_no < Len(Lines)
    /\ line_no' = line_no + 1
    /\ LET line == Lines[line_no + 1]
           region == IF isRegionLine(line) THEN parseRegionLine(line) ELSE Err
       IN  \/ /\ region.kind = "error"
              /\ UNCHANGED <<regions, parse_ret>>
           \/ /\ region.kind = "region"
              /\ regions' = Append(regions, region)
              /\ UNCHANGED parse_ret
           \/ /\ region.kind = "fault"
              /\ \/ parse_ret' = "panicked"
                 \/ UNCHANGED parse_ret
              /\ UNCHANGED regions
    /\ UNCHANGED <<source, output, collectorVars, timelineState, hookState>>

\* parse, line 20: return regions.toOwnedSlice(allocator)
parse_return ==
    /\ parse_ret = "running"
    /\ line_no = Len(Lines)
    /\ parse_ret' = "returned"
    /\ UNCHANGED <<source, output, line_no, regions, collectorVars,
                   timelineState, hookState>>

parse == parse_line \/ parse_return

ParseSpec == ParseInit /\ [][parse]_vars

\* ================================================================= Timeline
MaxSnapshots == 2
    \* snapshots handed to one Timeline
MaxSnapshotRegions == 2
    \* regions in one snapshot

\* the regions a snapshot may hold: a stack, the same stack after it grew,
\* a heap zone at the stack's first range, and a stack that starts higher
RegionPool ==
    {[type |-> <<"S", "t", "a", "c", "k">>,
      start |-> 1, end |-> 2, vsize |-> 1],
     [type |-> <<"S", "t", "a", "c", "k">>,
      start |-> 1, end |-> 12, vsize |-> 11],
     [type |-> <<"M", "A", "L", "L", "O", "C", "|", "1">>,
      start |-> 1, end |-> 2, vsize |-> 1],
     [type |-> <<"S", "t", "a", "c", "k">>,
      start |-> 2, end |-> 12, vsize |-> 10]}

\* regionColors.ts EXACT and PREFIX_RULES
EXACT ==
    <<<<<<"_", "_", "T", "E", "X", "T">>, "code">>,
      <<<<"_", "_", "L", "I", "N", "K", "E", "D", "I", "T">>, "code">>,
      <<<<"_", "_", "D", "A", "T", "A">>, "data">>,
      <<<<"_", "_", "D", "A", "T", "A", "_", "C", "O", "N", "S", "T">>,
        "data">>,
      <<<<"_", "_", "D", "A", "T", "A", "_", "D", "I", "R", "T", "Y">>,
        "data">>,
      <<<<"S", "t", "a", "c", "k">>, "stack">>,
      <<<<"S", "T", "A", "C", "K", " ", "G", "U", "A", "R", "D">>, "stack">>,
      <<<<"m", "a", "p", "p", "e", "d", " ", "f", "i", "l", "e">>, "mapped">>,
      <<<<"s", "h", "a", "r", "e", "d", " ", "m", "e", "m", "o", "r", "y">>,
        "shared">>>>
PREFIX_RULES ==
    <<<<<<"M", "A", "L", "L", "O", "C">>, "heap">>,
      <<<<"_", "_", "O", "B", "J", "C">>, "data">>,
      <<<<"_", "_", "A", "U", "T", "H">>, "data">>>>

\* regionColors.ts categoryForType
categoryForType(regionType) ==
    LET exact == {k \in 1..Len(EXACT) : EXACT[k][1] = regionType}
        prefix == {k \in 1..Len(PREFIX_RULES) :
                     startsWith(regionType, PREFIX_RULES[k][1])}
    IN  IF exact # {} THEN EXACT[Min(exact)][2]
        ELSE IF prefix # {} THEN PREFIX_RULES[Min(prefix)][2]
        ELSE "system"

\* a number in a template literal: its decimal numeral
NumberToString(n) == FormatDecimal(n, 1)

\* a key that leaves the end address out
key_without_end(region) ==
    region.type \o <<"|">> \o NumberToString(region.start)

\* Timeline, line 53: `${region.type}|${region.start}|${region.end}`
key(region) ==
    region.type \o <<"|">> \o NumberToString(region.start)
        \o <<"|">> \o NumberToString(region.end)

\* Timeline, lines 58-67: the entry set for a key seen for the first time
TrackedRegion(region, at) ==
    [key |-> key(region),
     type |-> region.type,
     start |-> region.start,
     end |-> region.end,
     vsize |-> region.vsize,
     category |-> categoryForType(region.type),
     firstSnapshot |-> at,
     lastSnapshot |-> at]

\* Timeline, line 72: a.start - b.start || a.end - b.end is negative
Before(a, b) == a.start < b.start \/ (a.start = b.start /\ a.end < b.end)

\* Array.prototype.sort with that comparison: entries that compare equal
\* keep the order they had
RECURSIVE sort(_)
sort(entries) ==
    IF entries = <<>> THEN <<>>
    ELSE LET x == entries[Len(entries)]
             rest == sort(SubSeq(entries, 1, Len(entries) - 1))
             k == Cardinality({n \in 1..Len(rest) : ~Before(x, rest[n])})
         IN  SubSeq(rest, 1, k) \o <<x>> \o SubSeq(rest, k + 1, Len(rest))

TimelineInit ==
    /\ CollectorNull
    /\ on_push = "drops"
    /\ ParserIdle
    /\ HookIdle
    /\ timeline_pc = "outer"
    /\ timeline_i = 0
    /\ timeline_j = 0
    /\ map = <<>>
    /\ tracked = <<>>
    /\ occurs = {}

\* Timeline, line 51: i < snapshots.length, and the inner loop is entered
tracked_enter ==
    /\ timeline_pc = "outer"
    /\ timeline_i < MaxSnapshots
    /\ timeline_pc' = "inner"
    /\ timeline_j' = 0
    /\ UNCHANGED <<timeline_i, map, tracked, occurs>>
    /\ UNCHANGED <<collectorVars, parserState, hookState>>

\* Timeline, lines 52-68: one region of snapshots[i]
tracked_region ==
    /\ timeline_pc = "inner"
    /\ timeline_j < MaxSnapshotRegions
    /\ \E region \in RegionPool :
         LET existing == {n \in 1..Len(map) : map[n].key = key(region)}
         IN  /\ map' = IF existing # {}
                       THEN [map EXCEPT
                               ![Min(existing)].lastSnapshot = timeline_i]
                       ELSE Append(map, TrackedRegion(region, timeline_i))
             /\ occurs' = occurs \cup
                   {<<region.type, region.start, region.end, timeline_i>>}
    /\ timeline_j' = timeline_j + 1
    /\ UNCHANGED <<timeline_pc, timeline_i, tracked>>
    /\ UNCHANGED <<collectorVars, parserState, hookState>>

\* Timeline, lines 51-52: snapshots[i] has no more regions, i++
tracked_next ==
    /\ timeline_pc = "inner"
    /\ timeline_pc' = "outer"
    /\ timeline_i' = timeline_i + 1
    /\ UNCHANGED <<timeline_j, map, tracked, occurs>>
    /\ UNCHANGED <<collectorVars, parserState, hookState>>

\* Timeline, lines 71-73: i is snapshots.length; the Map's values are
\* sorted and returned
tracked_return ==
    /\ timeline_pc = "outer"
    /\ timeline_pc' = "returned"
    /\ tracked' = sort(map)
    /\ UNCHANGED <<timeline_i, timeline_j, map, occurs>>
    /\ UNCHANGED <<collectorVars, parserState, hookState>>

Timeline == tracked_enter \/ tracked_region \/ tracked_next \/ tracked_return

TimelineSpec == TimelineInit /\ [][Timeline]_vars

\* ========================================================= useCollector
\* the interval App hands to the hook (INTERVAL_MS), which is also the one
\* useCollector.ts passes itself
HookIntervals == {1000}

\* one call of a native method, made by the effect run `effect`
Call(method, effect) == [method |-> method, effect |-> effect]

HookInit ==
    /\ CollectorNull
    /\ on_push = "records"
    /\ ElsewhereIdle

besidesHook == <<collectorVars, parserState, timelineState>>

\* useCollector, lines 11-25: the effect runs (on mount, or when pid or
\* intervalMs changed and the run before was cleaned up).  The async
\* function runs up to its first await: the create call is made.
useEffect_run ==
    /\ ~mounted
    /\ effects < MaxEffects
    /\ effects' = effects + 1
    /\ mounted' = TRUE
    /\ iife' = Append(iife, "await_create")
    /\ promise' = Append(promise, "pending")
    /\ methodQueue' = Append(methodQueue, Call("create", effects + 1))
    /\ UNCHANGED <<bridge_pc, besidesHook>>

\* useCollector, lines 27-29: the cleanup.  Nothing in it looks at where
\* the async function stands.
useEffect_cleanup ==
    /\ mounted
    /\ mounted' = FALSE
    /\ methodQueue' = Append(methodQueue, Call("stop", effects))
    /\ UNCHANGED <<effects, iife, promise, bridge_pc, besidesHook>>

\* useCollector, lines 19-24: the async function goes on once the promise
\* it awaits is settled: after create it calls start, a rejection is caught
iife_resume(e) ==
    /\ promise[e] # "pending"
    /\ iife[e] \in {"await_create", "await_start"}
    /\ IF iife[e] = "await_create" /\ promise[e] = "resolved"
       THEN /\ iife' = [iife EXCEPT ![e] = "await_start"]
            /\ promise' = [promise EXCEPT ![e] = "pending"]
            /\ methodQueue' = Append(methodQueue, Call("start", e))
       ELSE /\ iife' = [iife EXCEPT ![e] =
                          IF promise[e] = "resolved" THEN "done"
                          ELSE "caught"]
            /\ UNCHANGED <<promise, methodQueue>>
    /\ UNCHANGED <<effects, mounted, bridge_pc, besidesHook>>

\* resolve(@"") or reject(...)
Settle(e, ok) ==
    [promise EXCEPT ![e] = IF ok THEN "resolved" ELSE "rejected"]

\* the module takes its calls one at a time, in the order they were made
MethodReady(method) ==
    /\ ~crashed
    /\ callerPc = "ready"
    /\ methodQueue # <<>>
    /\ Head(methodQueue).method = method

\* VmmapCollectorModule.m create: a collector held from before is destroyed
\* first; then _createFn, and _collector is set when it succeeded
VmmapCollectorModule_create ==
    /\ MethodReady("create")
    /\ IF bridge_pc = "idle" /\ collector # "null"
       THEN /\ vmmap_collector_destroy(collector)
            /\ bridge_pc' = "create"
            /\ UNCHANGED <<promise, methodQueue>>
       ELSE /\ bridge_pc \in {"idle", "create"}
            /\ \E i \in HookIntervals : vmmap_collector_create(i)
            /\ promise' = Settle(Head(methodQueue).effect, result'.ok)
            /\ methodQueue' = Tail(methodQueue)
            /\ bridge_pc' = "idle"
    /\ UNCHANGED <<effects, mounted, iife, parserState, timelineState>>

\* VmmapCollectorModule.m start: with no collector the promise is neither
\* resolved nor rejected.  A _collector that was destroyed and not replaced
\* is read all the same.
VmmapCollectorModule_start ==
    /\ MethodReady("start")
    /\ bridge_pc = "idle"
    /\ IF collector = "null"
       THEN UNCHANGED <<collectorVars, promise>>
       ELSE IF collector = "live"
       THEN /\ vmmap_collector_start(collector)
            /\ promise' = Settle(Head(methodQueue).effect, result'.ok)
       ELSE /\ touchedFreed' = TRUE
            /\ \/ /\ aborted' = TRUE
                  /\ UNCHANGED <<running, thread, loopPc, result, promise>>
               \/ /\ Collector_start
                  /\ promise' = Settle(Head(methodQueue).effect, result'.ok)
                  /\ UNCHANGED aborted
            /\ UNCHANGED <<collector, gen, interval_ms, snapshots, callerPc,
                           cur, cycle, outcomes, delivered, on_push, pushed,
                           unreaped, clock, heapState>>
    /\ methodQueue' = Tail(methodQueue)
    /\ UNCHANGED <<effects, mounted, iife, bridge_pc, parserState,
                   timelineState>>

\* VmmapCollectorModule.m stop
VmmapCollectorModule_stop ==
    /\ MethodReady("stop")
    /\ bridge_pc = "idle"
    /\ IF collector = "null"
       THEN UNCHANGED collectorVars
       ELSE IF collector = "live"
       THEN vmmap_collector_stop(collector)
       ELSE /\ touchedFreed' = TRUE
            /\ \/ /\ aborted' = TRUE
                  /\ UNCHANGED <<running, callerPc>>
               \/ /\ Collector_stop("stop_join", "ready")
                  /\ UNCHANGED aborted
            /\ UNCHANGED <<collector, gen, interval_ms, thread, snapshots,
                           result, loopState, clock, heapState>>
    /\ methodQueue' = Tail(methodQueue)
    /\ UNCHANGED <<effects, mounted, iife, promise, bridge_pc, parserState,
                   timelineState>>

\* VmmapCollectorModule.m dealloc: the module is released between two of
\* its methods; the calls still queued are never executed
VmmapCollectorModule_dealloc ==
    /\ ~crashed
    /\ callerPc = "ready"
    /\ bridge_pc = "idle"
    /\ vmmap_collector_destroy(collector)
    /\ bridge_pc' = "gone"
    /\ UNCHANGED <<effects, mounted, iife, promise, methodQueue,
                   parserState, timelineState>>

VmmapCollectorModule ==
    \/ VmmapCollectorModule_create
    \/ VmmapCollectorModule_start
    \/ VmmapCollectorModule_stop
    \/ VmmapCollectorModule_dealloc

useCollector ==
    \/ useEffect_run
    \/ useEffect_cleanup
    \/ \E e \in 1..effects : iife_resume(e)

HookNext ==
    \/ useCollector
    \/ VmmapCollectorModule
    \/ Join
    \/ DeinitFree
    \/ DestroyFree
    \/ \E t \in Threads : collectionLoop(t)

HookSpec == HookInit /\ [][HookNext]_vars

\* =================================================================== claims
\* the collector is idle as the caller sees it: no call in progress and the
\* running flag clear
Idle == callerPc = "ready" /\ ~running

\* C1: at every moment at most one background execution unit exists, and
\* none while the collector is idle (after create, before the first start,
\* after stop has returned); start() on a running collector spawns nothing
\* and changes no state, and a start() that succeeds on an idle collector
\* leaves exactly one unit.
C1_OneExecutionUnit ==
    /\ [](Cardinality(Units) <= 1 /\ (Idle => Units = {}))
    /\ [][\A h \in Handles :
            (h = "live" /\ vmmap_collector_start(h)) =>
                IF running
                THEN UNCHANGED <<collectorState, loopState, heapState>>
                ELSE result'.ok =>
                        /\ Cardinality(Units') = 1
                        /\ Units = {}]_vars

C1_Witness ==
    /\ collector = "live"
    /\ Idle
    /\ Units = {}
    /\ cycle > 0

\* the collector is live and stop() has returned with no start() since
Stopped == collector = "live" /\ Idle

\* C2: once stop() has returned, and until start() is called again, no
\* execution unit is left, no capture is in flight and on_snapshot is not
\* invoked again.
C2_QuietAfterStop ==
    /\ [](Stopped => \A t \in Threads : loopPc[t] = "none")
    /\ [][Stopped => delivered' = delivered]_vars

C2_Witness ==
    /\ Stopped
    /\ delivered # <<>>
    /\ thread = 0

\* the cycles whose captureSnapshot returned without an error
OkCycles == {k \in DOMAIN outcomes : outcomes[k] = "ok"}

SleepsAfterFailure(t) ==
    /\ loopPc[t] = "sleep"
    /\ cycle \in DOMAIN outcomes
    /\ outcomes[cycle] = "failed"

\* C4: a failed cycle delivers nothing, does not end the loop, and is
\* followed by the next check of the flag after the interval; the loop leaves
\* only with the running flag clear.
C4_FailedCycleKeepsLoop ==
    /\ [](\A i \in 1..Len(delivered) : outcomes[delivered[i].cycle] # "failed")
    /\ [][\A t \in Threads :
            /\ (SleepsAfterFailure(t) /\ loopPc'[t] # "sleep")
                   => (loopPc'[t] = "check" /\ ~SleepNs.overflow)
            /\ (loopPc'[t] = "exited" /\ loopPc[t] # "exited")
                   => ~running]_vars

\* C5: a start() that fails to spawn reports the failure and leaves the
\* collector idle: running flag clear, no thread handle, no unit.
C5_FailedStartStaysIdle ==
    [][\A h \in Handles :
         (h = "live" /\ vmmap_collector_start(h) /\ ~result'.ok) =>
             /\ ~running'
             /\ thread' = 0
             /\ Units' = {}]_vars

\* destroy is releasing, or has released, the collector's memory
Releasing == callerPc \in {"deinit_free", "destroy_free"} \/ collector = "freed"

\* C6: from the moment destroy starts to release memory, the capture loop
\* has terminated: no unit exists, so nothing appends or delivers during or
\* after the free.
C6_JoinBeforeFree ==
    Releasing => \A t \in Threads : loopPc[t] = "none"

\* destroy() was called on a running collector, whose loop has now left
C6_Witness ==
    /\ callerPc = "deinit_join"
    /\ thread # 0
    /\ loopPc[thread] = "exited"
    /\ snapshots # <<>>

\* every allocation the collector retains: itself, the history list and, for
\* each retained snapshot, the region array and the regions' strings
RetainedAllocs ==
    {CollectorAlloc(gen)} \cup ({ListAlloc(gen)} \cap allocated)
        \cup UNION {SnapshotAllocs(snapshots[i]) : i \in 1..Len(snapshots)}

\* C7: once destroy() has returned (it performs stop() first), everything
\* the collector retained has been freed, and nothing twice.
C7_DestroyFreesAllOnce ==
    (collector = "freed" /\ callerPc = "ready" /\ ~touchedFreed) =>
        /\ RetainedAllocs \subseteq freed
        /\ doubleFreed = {}

\* C8: destroy() on a null or an already destroyed handle is a no-op: it
\* touches no released collector state and frees nothing a second time.
C8_DestroyIdempotent ==
    /\ ~touchedFreed
    /\ doubleFreed = {}

\* C9: stop() on a handle with no running execution unit returns without
\* blocking and leaves the running flag, the thread handle and the history
\* as they were.
C9_StopWithoutUnitIsNoOp ==
    [][\A h \in Handles :
         (vmmap_collector_stop(h) /\ (h = "null" \/ Units = {})) =>
             /\ callerPc' = "ready"
             /\ UNCHANGED <<running, thread, snapshots>>]_vars

\* C10: no pull accessor reads the history while the loop is inside its
\* append.
C10_PullSerializedWithAppend ==
    [][\A h \in Handles :
         (h = "live" /\ (\/ vmmap_collector_snapshot_count(h)
                         \/ vmmap_collector_get_snapshots_json(h)))
             => ~Appending]_vars

\* the cycles whose snapshot reached on_snapshot and was not handed to on_push
SkippedPushes ==
    {delivered[i].cycle : i \in 1..Len(delivered)}
        \ {pushed[i] : i \in 1..Len(pushed)}

\* the unit t sleeps after a cycle whose conversion failed
SleepsAfterSkippedPush(t) == loopPc[t] = "sleep" /\ cycle \in SkippedPushes

\* C11: a delivery whose conversion for the boundary fails is skipped and
\* nothing else: on_push is not invoked for that cycle, the loop does not
\* crash but goes on to its next check of the flag, and on_push is invoked
\* for every later cycle whose conversion succeeds.
C11_FailedConversionSkipsOne ==
    [][\A t \in Threads :
         /\ (Deliver(t) /\ pushed' = pushed) => loopPc'[t] = "sleep"
         /\ (SleepsAfterSkippedPush(t) /\ loopPc'[t] # "sleep")
                => loopPc'[t] = "check"
         /\ (Deliver(t) /\ SkippedPushes # {} /\ pushed' # pushed)
                => pushed' = Append(pushed, cycle)]_vars

\* ----------------------------------------------------------- parser claims
\* the lines of the text that were written as region lines, in source order
ValidLines == SelectSeq(source, LAMBDA k : LinePool[k].kind = "region")

\* parse has returned its regions
Parsed == parse_ret = "returned"

\* parse has just made a Region of the line it took
MadeRegion == Len(regions') = Len(regions) + 1
NewRegion == regions'[Len(regions')]

\* the line parse_line takes, as it was written
TakenLine == LinePool[source[line_no + 1]]

\* C12: parse never aborts, and what it returns is one Region per valid line
\* of the text, in source order, with that line's category and addresses,
\* whatever other lines stand around it.
C12_ParseTolerant ==
    /\ parse_ret # "panicked"
    /\ Parsed =>
         /\ Len(regions) = Len(ValidLines)
         /\ \A i \in 1..Len(regions) :
              /\ regions[i].region_type = LinePool[ValidLines[i]].category
              /\ regions[i].start_addr = LinePool[ValidLines[i]].start
              /\ regions[i].end_addr = LinePool[ValidLines[i]].end

\* the Region the scenario names, with a virtual size of v bytes
ScenarioRegion(v) ==
    [kind |-> "region",
     region_type |-> <<"_", "_", "T", "E", "X", "T">>,
     start_addr |-> <<1, 0, 0, 4, 8, 4, 0, 0, 0>>,
     end_addr |-> <<1, 0, 0, 15, 3, 12, 0, 0, 0>>,
     virtual_size |-> DigitsOf(v),
     resident_size |-> DigitsOf(8093696),
     dirty_size |-> <<0>>,
     swap_size |-> <<0>>,
     current_perm |-> [read |-> TRUE, write |-> FALSE, execute |-> TRUE],
     max_perm |-> [read |-> TRUE, write |-> FALSE, execute |-> TRUE],
     sharing_mode |-> "COW",
     detail |-> <<"/", "b", "i", "n", "/", "a", "p", "p">>]

\* C13, as stated: the scenario's line parses to exactly one Region, with
\* category __TEXT, start 0x100484000, end 0x100f3c000, virtual size
\* 11216076, resident size 8093696, dirty 0, swap 0, r-x/r-x, copy-on-write
\* and detail /bin/app.
C13_ScenarioAsStated ==
    (Parsed /\ source = <<ScenarioLine>>)
        => regions = <<ScenarioRegion(11216076)>>

\* C13, amended: the same, with the virtual size 10.7 * 1024 * 1024
\* truncated, which is 11219763.
C13_ScenarioAmended ==
    (Parsed /\ source = <<ScenarioLine>>)
        => regions = <<ScenarioRegion(11219763)>>

C13_Witness ==
    /\ Parsed
    /\ source = <<ScenarioLine>>
    /\ Len(regions) = 1

\* m * 1024^k truncated, for a size written as m with the unit of power k
Pow1024(unit) ==
    IF unit = "K" THEN 1024
    ELSE IF unit = "M" THEN 1024 * 1024
    ELSE IF unit = "G" THEN 1024 * 1024 * 1024
    ELSE 1
Bytes(m) == (m.digits * Pow1024(m.unit)) \div Pow10(m.decimals)

SizesOf(r) ==
    <<r.virtual_size, r.resident_size, r.dirty_size, r.swap_size>>

\* C14: every size of a Region is its token's magnitude times 1024^k,
\* truncated, with k = 0, 1, 2, 3 for no unit, K, M, G: 512K is 524288, 0K is
\* 0, a bare 824 is 824 and 10.7M is 10.7 * 1024 * 1024 truncated.
C14_SizeUnits ==
    [][MadeRegion =>
         \A j \in 1..4 :
            LET m == TakenLine.sizes[j]
                n == Num(SizesOf(NewRegion)[j])
            IN  /\ n = Bytes(m)
                /\ FormatSize(m) = <<"5", "1", "2", "K">> => n = 524288
                /\ FormatSize(m) = <<"0", "K">> => n = 0
                /\ FormatSize(m) = <<"8", "2", "4">> => n = 824
                /\ FormatSize(m) = <<"1", "0", ".", "7", "M">>
                       => n = 11219763]_vars

\* the sizes 1G, 1.5K and 0.7K have been parsed
C14_Witness ==
    /\ Parsed
    /\ \E i \in 1..Len(regions) :
         /\ Num(regions[i].virtual_size) = 1073741824
         /\ Num(regions[i].resident_size) = 1536
         /\ Num(regions[i].dirty_size) = 716

\* C15: a region line with no permissions written after its bracket yields
\* a Region whose two permission triples are all-denied, whatever sharing
\* marker and detail the line carries.
C15_NoPermissionsAllDenied ==
    [][(MadeRegion /\ TakenLine.perms = <<>>) =>
         /\ NewRegion.current_perm = Denied
         /\ NewRegion.max_perm = Denied]_vars

\* the sharing mode of the marker that comes first in a text, private when
\* the text holds none
FirstMarker(text) ==
    LET present == {k \in 1..Len(sm_markers) :
                      Occurrences(text, sm_markers[k]) # {}}
        at(k) == Min(Occurrences(text, sm_markers[k]))
    IN  IF present = {} THEN "PRV"
        ELSE SharingMode[CHOOSE k \in present :
                            \A o \in present : at(k) <= at(o)]

\* C16: the sharing mode of a Region is that of the marker that comes first
\* in the text after the closing bracket, and private when there is none.
C16_FirstMarkerWins ==
    [][MadeRegion =>
         NewRegion.sharing_mode = FirstMarker(TailText(TakenLine))]_vars

\* C17: the category of a Region is the text its line carries before the
\* address range, without the whitespace around it: the spaces inside it,
\* its words of hex letters and its parenthetical qualifier are kept.
C17_CategoryBeforeAnchor ==
    [][MadeRegion => NewRegion.region_type = TakenLine.category]_vars

\* ---------------------------------------------------------- Timeline claim
\* the (category, start, end) triples taken so far, and the snapshot
\* indexes a triple was taken at
Triples == {<<o[1], o[2], o[3]>> : o \in occurs}
IndexesOf(t) == {o[4] : o \in {p \in occurs : <<p[1], p[2], p[3]>> = t}}

\* C18: the fold returns exactly one Tracked Region per distinct (category,
\* start, end) triple of the snapshots, with the smallest and the largest
\* snapshot index the triple occurs at; regions that differ in their end
\* address only are two Tracked Regions.
C18_OneTrackedRegionPerTriple ==
    timeline_pc = "returned" =>
        /\ Len(tracked) = Cardinality(Triples)
        /\ \A t \in Triples :
             \E n \in 1..Len(tracked) :
                /\ <<tracked[n].type, tracked[n].start, tracked[n].end>> = t
                /\ tracked[n].firstSnapshot = Min(IndexesOf(t))
                /\ tracked[n].lastSnapshot = Max(IndexesOf(t))

\* a region grew between two snapshots while another stayed as it was
C18_Witness ==
    /\ timeline_pc = "returned"
    /\ \E a, b, c \in 1..Len(tracked) :
         /\ tracked[a].type = tracked[b].type
         /\ tracked[a].start = tracked[b].start
         /\ tracked[a].end < tracked[b].end
         /\ tracked[a].lastSnapshot < tracked[b].firstSnapshot
         /\ tracked[c].firstSnapshot < tracked[c].lastSnapshot

\* -------------------------------------------------------------- hook claim
\* nothing of the hook is left to happen: no call is queued or in progress
\* and no async function can go on
HookQuiet ==
    /\ methodQueue = <<>>
    /\ bridge_pc = "idle"
    /\ callerPc = "ready"
    /\ \A e \in 1..effects :
         promise[e] = "pending" \/ iife[e] \in {"done", "caught"}

\* C19: once the hook's cleanup has run and everything the effect set going
\* has been carried out, the collector is stopped: it is never left running,
\* in whatever order the cleanup's stop and the effect's create and start
\* reach the native module.
C19_StoppedAfterCleanup ==
    (effects > 0 /\ ~mounted /\ HookQuiet) => ~running

\* ---------------------------------------------------------- delivery claim
\* the units that stand inside captureSnapshot, its on_snapshot call included
Capturing ==
    {t \in Threads : loopPc[t] \in {"spawn", "read", "wait", "parse", "append",
                                    "appending", "deliver"}}

\* C20: deliveries are made one at a time from the loop: at most one unit
\* stands inside captureSnapshot, and a capture begins only when
\* captureSnapshot, with its on_snapshot call, has returned for every capture
\* begun before it.
C20_DeliveriesOneAtATime ==
    /\ [](Cardinality(Capturing) <= 1)
    /\ [][cycle' # cycle =>
            /\ Capturing = {}
            /\ \A k \in 1..cycle : k \in DOMAIN outcomes
            /\ \A i \in 1..Len(delivered) : delivered[i].cycle <= cycle]_vars

\* the second capture is at its delivery after the first was delivered
C20_Witness ==
    /\ \E t \in Threads : loopPc[t] = "deliver" /\ cur[t].cycle = 2
    /\ Len(delivered) = 1
    /\ delivered[1].cycle = 1

\* ------------------------------------------------------------- stop claims
\* stop() has cleared the flag and has not returned yet
Joining == callerPc \in {"stop_join", "deinit_join"}

\* the units that have not left collectionLoop
Looping == {t \in Threads : loopPc[t] \notin {"none", "exited", "panicked"}}

\* C21: between the clearing of the flag and the return of stop() no capture
\* begins; the capture in progress goes on step by step to its end, its
\* delivery included, which is the only one in that time; the loop then
\* sleeps, tests the flag and leaves.
C21_InFlightCycleCompletes ==
    [][\A t \in Looping :
         Joining =>
            /\ cycle' = cycle
            /\ Len(delivered') > Len(delivered) =>
                 /\ Len(delivered') = Len(delivered) + 1
                 /\ cycle \notin DOMAIN outcomes
            /\ loopPc'[t] # "panicked"
            /\ loopPc'[t] = "exited" => loopPc[t] = "check"
            /\ (loopPc[t] = "sleep" /\ loopPc'[t] # "sleep")
                   => loopPc'[t] = "check"]_vars

\* C22: every stop() that finds the collector running returns in the end,
\* and at its return the unit is gone and the collector is idle.
C22_StopReturns ==
    (callerPc = "stop_join")
        ~> (/\ Idle
            /\ thread = 0
            /\ \A t \in Threads : loopPc[t] = "none")

\* ---------------------------------------------------- malformed lines
\* the line parse_line takes, as parse reads it, and the tokens of its
\* bracket
TakenText == Lines[line_no + 1]
SizeTokens(line) ==
    LET open == Min(Occurrences(line, <<"[">>))
        close == Min(Occurrences(line, <<"]">>))
    IN  tokenizeScalar(Slice(line, open + 1, close), " ")
Numeric(token) == \E i \in 1..Len(token) : token[i] \in DecimalDigits

\* C23: a line yields a Region only if its bracket holds exactly four
\* tokens, each with numeric content; a line with another number of tokens
\* is passed over whole.
C23_ExactlyFourSizes ==
    [][MadeRegion =>
         /\ Len(SizeTokens(TakenText)) = 4
         /\ \A j \in 1..4 : Numeric(SizeTokens(TakenText)[j])]_vars

\* one address, held as its hex digits without leading zeros, is below
\* another
Below(a, b) ==
    \/ Len(a) < Len(b)
    \/ /\ Len(a) = Len(b)
       /\ \E i \in 1..Len(a) :
            /\ a[i] < b[i]
            /\ \A j \in 1..(i - 1) : a[j] = b[j]

\* C24: every Region parse returns starts below its end: a line whose range
\* is empty or reversed yields none.
C24_StartBelowEnd ==
    \A i \in 1..Len(regions) :
       Below(regions[i].start_addr, regions[i].end_addr)

\* --------------------------------------------------- one capture cycle
\* C25: the timestamp of a snapshot is the time at which its capture was
\* invoked: it is read no later than the spawn of the external process.
C25_StampedAtInvocation ==
    [][\A t \in Threads :
         (loopPc[t] = "wait" /\ loopPc'[t] = "parse")
             => cur'[t].timestamp_ms = cur[t].invoked_ms]_vars

\* C26: a capture whose process was killed by a signal ends like any failed
\* cycle: whichever way the process ended, the step that waits for it goes
\* on to the parse (exit code 0) or to the sleep with nothing delivered,
\* and the unit is not lost.
C26_SignalledChildIsAFailure ==
    [][\A t \in Threads :
         loopPc[t] = "wait" =>
            /\ loopPc'[t] \in {"wait", "parse", "sleep"}
            /\ delivered' = delivered]_vars

\* C27: the delay between cycles is interval_ms milliseconds for every
\* interval create accepts: interval_ms * 1,000,000 fits the u32 it is
\* computed in.
C27_DelayExact ==
    collector = "live" => ~MulU32(interval_ms, ns_per_ms).overflow

\* the units in the middle of a capture whose child is not yet waited for
Unwaited == {t \in Threads : loopPc[t] \in {"read", "wait"}}

\* C28: when a cycle ends its child has been waited for, so the children
\* not yet reaped are those of the captures still in progress, and none is
\* left once stop() has returned.
C28_ChildReaped ==
    /\ [](Stopped => unreaped = 0)
    /\ [][\A t \in Threads :
            (loopPc[t] # "sleep" /\ loopPc'[t] = "sleep")
                => unreaped' = Cardinality(Unwaited \ {t})]_vars

\* ---------------------------------------------------------- bridge claim
\* C29: the handle the bridge module holds is null or refers to a live
\* collector: no create, start, stop or dealloc of the module reads or
\* destroys a collector that was destroyed before.
C29_HandleIsLive == ~touchedFreed /\ doubleFreed = {}

\* --------------------------------------------------------- history claim
\* the cycles whose snapshots the history holds, and the deliveries of them
Retained == {snapshots[i].cycle : i \in 1..Len(snapshots)}
DeliveredRetained ==
    {i \in 1..Len(delivered) : delivered[i].cycle \in Retained}

=============================================================================
